---- MODULE Spec2Model ----
(***************************************************************************)
(* blobfs: a read-only fs.FS over a flat blob bucket.                      *)
(* The model follows src/unnamed/part_000 (blobFS: New, Open, exists) and  *)
(* src/unnamed/part_002 (blobFile: Stat, IsDir, Read, Seek, ReadDir, ...). *)
(* Strings are sequences of one-character strings, so that prefixes,       *)
(* suffixes, extensions and listing order are computed, not assumed.       *)
(***************************************************************************)
EXTENDS Integers, Sequences, FiniteSets, TLC

(***************************************************************************)
(* Bounds of the model.                                                    *)
(***************************************************************************)
MaxPathLen == 4      \* longest object key / longest name handed to Open
MaxObjects == 2      \* most objects in a bucket of the path specifications
MaxContentLen == 3   \* longest object content of the file specification
MaxBuf == 2          \* longest buffer handed to Read
MaxSeek == 1         \* how far a Seek may leave the range 0..MaxContentLen
MaxCount == 2        \* largest n handed to ReadDir

Chars == {"a", ".", "/"}

Strs(n) == UNION {[1..m -> Chars] : m \in 0..n}

(***************************************************************************)
(* String helpers (Go's strings and path/filepath packages).               *)
(***************************************************************************)
Max(S) == CHOOSE x \in S : \A y \in S : y <= x

Min(S) == CHOOSE x \in S : \A y \in S : x <= y

\* byte values of the characters: keys are listed in byte order
Ord(c) == CASE c = "." -> 46 [] c = "/" -> 47 [] OTHER -> 97

RECURSIVE StrLess(_, _)
StrLess(s, t) ==
    IF t = <<>> THEN FALSE
    ELSE IF s = <<>> THEN TRUE
    ELSE IF Head(s) = Head(t) THEN StrLess(Tail(s), Tail(t))
    ELSE Ord(Head(s)) < Ord(Head(t))

RECURSIVE SortStrs(_)
SortStrs(S) ==
    IF S = {} THEN <<>>
    ELSE LET m == CHOOSE x \in S : \A y \in S \ {x} : StrLess(x, y)
         IN  <<m>> \o SortStrs(S \ {m})

HasPrefix(s, pre) ==
    /\ Len(pre) <= Len(s)
    /\ SubSeq(s, 1, Len(pre)) = pre

HasSuffix(s, suf) ==
    /\ Len(suf) <= Len(s)
    /\ SubSeq(s, Len(s) - Len(suf) + 1, Len(s)) = suf

TrimPrefix(s, pre) ==
    IF HasPrefix(s, pre) THEN SubSeq(s, Len(pre) + 1, Len(s)) ELSE s

\* strings.Index(s, c) + 1 for a one-character c; 0 when c is not in s
Index(s, c) ==
    LET at == {i \in 1..Len(s) : s[i] = c}
    IN  IF at = {} THEN 0 ELSE Min(at)

\* an extension taken from the last dot anywhere in the path, with no regard
\* to the separators after it
ExtAnyDot(path) ==
    LET dots == {i \in 1..Len(path) : path[i] = "."}
    IN  IF dots = {} THEN <<>> ELSE SubSeq(path, Max(dots), Len(path))

\* filepath.Ext: the suffix from the last dot of the last element
Ext(path) ==
    LET dots == {i \in 1..Len(path) :
                    /\ path[i] = "."
                    /\ \A j \in i..Len(path) : path[j] # "/"}
    IN  IF dots = {} THEN <<>> ELSE SubSeq(path, Max(dots), Len(path))

\* filepath.Base: the last element, trailing slashes removed
RECURSIVE TrimSlashes(_)
TrimSlashes(p) ==
    IF p # <<>> /\ p[Len(p)] = "/" THEN TrimSlashes(SubSeq(p, 1, Len(p) - 1)) ELSE p

Base(path) ==
    LET p     == TrimSlashes(path)
        slash == {i \in 1..Len(p) : p[i] = "/"}
    IN  IF path = <<>> THEN <<".">>
        ELSE IF p = <<>> THEN <<"/">>
        ELSE IF slash = {} THEN p
        ELSE SubSeq(p, Max(slash) + 1, Len(p))

\* the elements of a slash-separated path
RECURSIVE Split(_)
Split(p) ==
    LET i == Index(p, "/")
    IN  IF i = 0 THEN <<p>>
        ELSE <<SubSeq(p, 1, i - 1)>> \o Split(SubSeq(p, i + 1, Len(p)))

\* io/fs.ValidPath
ValidPath(p) ==
    \/ p = <<".">>
    \/ \A i \in 1..Len(Split(p)) :
          Split(p)[i] \notin {<<>>, <<".">>, <<".", ".">>}

(***************************************************************************)
(* The bucket (gocloud.dev/blob), seen through blob.PrefixedBucket: a      *)
(* function from the keys that hold an object to the object.               *)
(***************************************************************************)
Keys == {k \in Strs(MaxPathLen) : k # <<".">> /\ ValidPath(k)}

Hello == <<1>>

Object(data, modTime) == [data |-> data, modTime |-> modTime]

\* blob.Bucket.Exists / Attributes / ReadAll find the object under the exact key
HasObject(bkt, key) == key \in DOMAIN bkt

\* one listed key: with Delimiter "/" the keys below the next "/" after the
\* prefix collapse into one entry that ends in the delimiter
ListEntry(prefix, key) ==
    LET rest == SubSeq(key, Len(prefix) + 1, Len(key))
        idx  == Index(rest, "/")
    IN  IF idx = 0 THEN key ELSE prefix \o SubSeq(rest, 1, idx)

\* the whole listing of ListOptions{Prefix: prefix, Delimiter: "/"}, in key order
ListObjects(bkt, prefix) ==
    SortStrs({ListEntry(prefix, k) : k \in {x \in DOMAIN bkt : HasPrefix(x, prefix)}})

\* blob.Bucket.ListPage(FirstPageToken, pageSize, ...)
ListPage(bkt, prefix, pageSize) ==
    LET all == ListObjects(bkt, prefix)
    IN  SubSeq(all, 1, IF Len(all) < pageSize THEN Len(all) ELSE pageSize)

(***************************************************************************)
(* State: the bucket, and one blobFile handle with its fields.             *)
(***************************************************************************)
VARIABLES
    bucket,     \* the objects of the bucket, by key
    pc,         \* "closed" before Open, then "open" or "failed"
    name,       \* blobFile.name
    attrs,      \* blobFile.attrs (set = FALSE is the nil pointer)
    isDir,      \* blobFile.isDir
    contents,   \* blobFile.contents (set = FALSE is the nil slice)
    offset,     \* blobFile.offset
    iter,       \* blobFile.iter (set = FALSE is the nil pointer)
    ret,        \* what the last call returned
    hist        \* history of the handle, for stating the properties

vars == <<bucket, pc, name, attrs, isDir, contents, offset, iter, ret, hist>>

NilAttrs == [set |-> FALSE, size |-> 0, modTime |-> 0]

NilContents == [set |-> FALSE, data |-> <<>>]

NilIter == [set |-> FALSE, loaded |-> FALSE, rest |-> <<>>]

\* a returned value: err is the innermost error ("nil" for none), errOp and
\* errPath the Op and Path of the *fs.PathError around it (errOp = "" when the
\* error is returned bare), calls the backing-store calls the operation made
Ret(op, err, errOp, errPath, calls) ==
    [op |-> op, err |-> err, errOp |-> errOp, errPath |-> errPath,
     calls |-> calls, n |-> 0, dir |-> FALSE, keys |-> <<>>, data |-> <<>>,
     arg |-> 0, nilArg |-> FALSE, whence |-> 0, mode |-> "0"]

NoRet == Ret("", "nil", "", <<>>, 0)

\* the values of whence: io.SeekStart, io.SeekCurrent, io.SeekEnd
SeekStart == 0

SeekCurrent == 1

SeekEnd == 2

\* the history: the name handed to Open, whether a store call has faulted,
\* whether the last Stat succeeded, the current run of Reads (see RunAfterRead),
\* the offset, operation and end-of-stream flag before the last call, and the
\* pages of a run of ReadDir(n) calls with one n > 0 (see PagesAfterReadDir);
\* the attributes the handle resolved first (first) and the content it fetched
\* first (snap), whether it had them before the last call (preFirst, preSet),
\* whether the call before the last was a Seek(0, end) (preEnd0),
\* whether a Stat has found the object (statted; preStatted before the last
\* call), whether the Attributes call of the last Stat faulted, and the number
\* of writes and deletions the store has seen (clock), and the entries the
\* last ReadDir returned (entries)
NoHist == [path |-> <<>>, faulted |-> FALSE, statOk |-> FALSE,
           run |-> "none", start |-> 0, got |-> <<>>, eof |-> FALSE,
           preOff |-> 0, preOp |-> "", preEof |-> FALSE, preIter |-> NilIter,
           paging |-> TRUE, pageN |-> 0, pages |-> <<>>,
           first |-> NilAttrs, preFirst |-> FALSE,
           snap |-> NilContents, preSet |-> FALSE,
           statted |-> FALSE, preStatted |-> FALSE, preEnd0 |-> FALSE,
           statFault |-> FALSE, clock |-> 0, entries |-> <<>>]

Pre(h) == [h EXCEPT !.preOff = offset, !.preOp = ret.op, !.preEof = h.eof,
                    !.preIter = iter, !.preFirst = h.first.set,
                    !.preSet = contents.set, !.preStatted = h.statted,
                    !.preEnd0 = (ret.op = "Seek" /\ ret.whence = SeekEnd
                                 /\ ret.arg = 0 /\ ret.err = "nil")]

\* the history once the handle's attributes are at: the first ones resolved stay
Resolved(h, at) == IF ~h.first.set /\ at.set THEN [h EXCEPT !.first = at] ELSE h

\* the history once the handle's content is c: the first one fetched stays
Fetched(h, c) == IF ~h.snap.set /\ c.set THEN [h EXCEPT !.snap = c] ELSE h

HandleInit ==
    /\ pc = "closed"
    /\ name = <<>>
    /\ attrs = NilAttrs
    /\ isDir = FALSE
    /\ contents = NilContents
    /\ offset = 0
    /\ iter = NilIter
    /\ ret = NoRet
    /\ hist = NoHist

RECURSIVE SubsetsUpTo(_, _)
SubsetsUpTo(S, n) ==
    IF n = 0 THEN {{}}
    ELSE LET prev == SubsetsUpTo(S, n - 1)
         IN  prev \cup {T \cup {x} : T \in prev, x \in S}

\* the buckets of the test: every object written with the same bytes
PathBuckets ==
    {[k \in K |-> Object(Hello, 0)] : K \in SubsetsUpTo(Keys, MaxObjects)}

(***************************************************************************)
(* blobFS.exists: the exact blob first, then a one-entry prefix listing.   *)
(* fEx and fLs say whether the Exists and the ListPage call fail with a    *)
(* store fault.                                                            *)
(***************************************************************************)
Exists(bkt, nm, fEx, fLs) ==
    LET fileExists == ~fEx /\ HasObject(bkt, nm)
        r == ListPage(bkt, nm, 1)
    IN  IF fileExists
        THEN [exists |-> TRUE, err |-> "nil", calls |-> 1, fault |-> FALSE]
        ELSE IF fLs
        THEN [exists |-> FALSE, err |-> "StoreErr", calls |-> 2, fault |-> TRUE]
        ELSE [exists |-> Len(r) > 0, err |-> "nil", calls |-> 2, fault |-> fEx]

(***************************************************************************)
(* blobFS.Open                                                             *)
(***************************************************************************)
OpenResult(bkt, p, fEx, fLs) ==
    LET e == Exists(bkt, p, fEx, fLs)
    IN  IF p = <<".">>
        THEN [ok |-> TRUE, name |-> <<>>, fault |-> FALSE,
              ret |-> Ret("Open", "nil", "", <<>>, 0)]
        ELSE IF ~e.exists
        THEN [ok |-> FALSE, name |-> <<>>, fault |-> e.fault,
              ret |-> Ret("Open", "ErrNotExist", "open", p, e.calls)]
        ELSE IF e.err # "nil"
        THEN [ok |-> FALSE, name |-> <<>>, fault |-> e.fault,
              ret |-> Ret("Open", e.err, "open", p, e.calls)]
        ELSE [ok |-> TRUE, name |-> p, fault |-> e.fault,
              ret |-> Ret("Open", "nil", "", <<>>, e.calls)]

Open(p, fEx, fLs) ==
    LET o == OpenResult(bucket, p, fEx, fLs)
    IN  /\ pc = "closed"
        /\ pc' = IF o.ok THEN "open" ELSE "failed"
        /\ name' = o.name
        /\ ret' = o.ret
        /\ hist' = [Pre(hist) EXCEPT !.path = p, !.faulted = o.fault,
                                     !.run = "fresh"]
        /\ UNCHANGED <<bucket, attrs, isDir, contents, offset, iter>>

(***************************************************************************)
(* blobFile.Stat                                                           *)
(***************************************************************************)
AttrsOf(obj) == [set |-> TRUE, size |-> Len(obj.data), modTime |-> obj.modTime]

Stat(fAt, fLs) ==
    LET found == ~fAt /\ HasObject(bucket, name)
        r     == IF fLs THEN <<>> ELSE ListPage(bucket, name, 1)
    IN  /\ pc = "open"
        /\ attrs' = IF found THEN AttrsOf(bucket[name]) ELSE NilAttrs
        /\ isDir' = IF ~found /\ Len(r) > 0 THEN TRUE ELSE isDir
        /\ ret' = IF found THEN Ret("Stat", "nil", "", <<>>, 1)
                  ELSE IF Len(r) = 0
                       THEN Ret("Stat", "ErrNotExist", "stat", name, 2)
                       ELSE Ret("Stat", "nil", "", <<>>, 2)
        /\ hist' = [Resolved(Pre(hist), attrs') EXCEPT
                      !.faulted = @ \/ fAt \/ (~found /\ fLs),
                      !.statFault = fAt,
                      !.statted = @ \/ found,
                      !.statOk = found \/ Len(r) > 0,
                      !.run = "none", !.start = 0, !.got = <<>>, !.eof = FALSE]
        /\ UNCHANGED <<bucket, pc, name, contents, offset, iter>>

(***************************************************************************)
(* blobFile.IsDir, called on the handle (Stat returns the handle itself)   *)
(***************************************************************************)
IsDirResult(bkt, nm, dirFlag, fEx, fLs) ==
    LET nm2 == IF nm = <<".">> THEN <<"/">> ELSE nm
        fileExists == ~fEx /\ HasObject(bkt, nm2)
        r == IF fLs THEN <<>> ELSE ListPage(bkt, nm2, 1)
    IN  IF Ext(nm) # <<>> THEN [dir |-> FALSE, calls |-> 0, fault |-> FALSE]
        ELSE IF dirFlag THEN [dir |-> TRUE, calls |-> 0, fault |-> FALSE]
        ELSE IF fileExists THEN [dir |-> FALSE, calls |-> 1, fault |-> FALSE]
        ELSE [dir |-> Len(r) > 0, calls |-> 2, fault |-> fEx \/ fLs]

IsDir(fEx, fLs) ==
    LET d == IsDirResult(bucket, name, isDir, fEx, fLs)
    IN  /\ pc = "open"
        /\ ret' = [Ret("IsDir", "nil", "", <<>>, d.calls) EXCEPT !.dir = d.dir]
        /\ hist' = [Pre(hist) EXCEPT
                      !.faulted = @ \/ d.fault,
                      !.run = "none", !.start = 0, !.got = <<>>, !.eof = FALSE]
        /\ UNCHANGED <<bucket, pc, name, attrs, isDir, contents, offset, iter>>

(***************************************************************************)
(* The path specification: any bucket, Open of any name, then Stat and     *)
(* IsDir on the handle.                                                    *)
(***************************************************************************)
Init ==
    /\ bucket \in PathBuckets
    /\ HandleInit

OpenAny == \E p \in Strs(MaxPathLen), fEx, fLs \in BOOLEAN : Open(p, fEx, fLs)

StatAny == \E fAt, fLs \in BOOLEAN : Stat(fAt, fLs)

IsDirAny == \E fEx, fLs \in BOOLEAN : IsDir(fEx, fLs)

Next == OpenAny \/ StatAny \/ IsDirAny

Spec == Init /\ [][Next]_vars

(***************************************************************************)
(* blobFile.getAttrs: the cached attributes, or Exists then Attributes.    *)
(* The result is the attributes returned (view) and the new value of       *)
(* blobFile.attrs (cache).                                                 *)
(***************************************************************************)
GetAttrs(bkt, nm, at, fEx, fAt) ==
    LET exists == ~fEx /\ HasObject(bkt, nm)
        got    == IF exists /\ ~fAt THEN AttrsOf(bkt[nm]) ELSE NilAttrs
    IN  IF at.set
        THEN [view |-> at, cache |-> at, calls |-> 0, fault |-> FALSE]
        ELSE [view |-> got, cache |-> got,
              calls |-> IF exists THEN 2 ELSE 1,
              fault |-> fEx \/ (exists /\ fAt)]

(***************************************************************************)
(* blobFile.Read                                                           *)
(***************************************************************************)
\* a destination buffer: the nil slice, or a slice of len bytes
NilBuf == [nil |-> TRUE, len |-> 0]

Buf(k) == [nil |-> FALSE, len |-> k]

Bufs == {NilBuf} \cup {Buf(k) : k \in 0..MaxBuf}

\* copy(buf, src): the number of bytes copied
CopyN(bufLen, srcLen) == IF bufLen < srcLen THEN bufLen ELSE srcLen

\* the bytes copy(buf, b.contents[b.offset:]) puts into a buffer of k bytes
ReadChunkSkipping(data, off, k) ==
    SubSeq(data, off + 2, off + 1 + CopyN(k, Len(data) - off - 1))

ReadChunk(data, off, k) ==
    SubSeq(data, off + 1, off + CopyN(k, Len(data) - off))

\* b.fs.bucket.ReadAll(b.name): fRd is a store fault
ReadAll(bkt, nm, fRd) ==
    IF fRd THEN [err |-> "StoreErr", data |-> <<>>]
    ELSE IF ~HasObject(bkt, nm) THEN [err |-> "NotFound", data |-> <<>>]
    ELSE [err |-> "nil", data |-> bkt[nm].data]

\* the history of a run of Reads: the bytes delivered since the handle was
\* opened ("fresh") or since the last start-anchored Seek ("seek"); anything
\* but a Read into a non-empty buffer that returns nil or io.EOF ends the run
RunAfterRead(h, buf, r) ==
    IF h.run # "none" /\ ~buf.nil /\ buf.len > 0 /\ r.err \in {"nil", "EOF"}
    THEN [h EXCEPT !.got = @ \o r.data, !.eof = @ \/ r.err = "EOF"]
    ELSE [h EXCEPT !.run = "none", !.got = <<>>, !.eof = FALSE, !.start = 0]

\* a Read that does not look at the buffer it holds: it fetches every time
NeedFetchAlways(c) == TRUE

\* if b.contents == nil: the content is fetched only while none is held
NeedFetch(c) == ~c.set

Read(buf, fRd) ==
    LET fetch == NeedFetch(contents)
        f     == ReadAll(bucket, name, fRd)
        c     == IF fetch THEN f.data ELSE contents.data
        chunk == ReadChunk(c, offset, buf.len)
        r     == IF buf.nil
                 THEN Ret("Read", "nil", "", <<>>, 0)
                 ELSE IF fetch /\ f.err # "nil"
                 THEN Ret("Read", f.err, "", <<>>, 1)
                 ELSE IF offset < 0 \/ offset > Len(c)
                 THEN Ret("Read", "panic", "", <<>>, IF fetch THEN 1 ELSE 0)
                 ELSE [Ret("Read", IF Len(chunk) = 0 THEN "EOF" ELSE "nil", "", <<>>,
                           IF fetch THEN 1 ELSE 0)
                         EXCEPT !.n = Len(chunk), !.data = chunk]
    IN  /\ pc = "open"
        /\ contents' = IF ~buf.nil /\ fetch /\ f.err = "nil"
                       THEN [set |-> TRUE, data |-> f.data]
                       ELSE contents
        /\ offset' = offset + r.n
        /\ ret' = [r EXCEPT !.arg = buf.len, !.nilArg = buf.nil]
        /\ hist' = [Fetched(RunAfterRead(Pre(hist), buf, r), contents') EXCEPT
                      !.faulted = @ \/ (~buf.nil /\ fetch /\ fRd)]
        /\ UNCHANGED <<bucket, pc, name, attrs, isDir, iter>>

(***************************************************************************)
(* blobFile.Seek                                                           *)
(***************************************************************************)
Whences == {SeekStart, SeekCurrent, SeekEnd, SeekEnd + 1}

\* the new offset, for a recognised whence
SeekTargetRelative(whence, delta, off, size) ==
    IF whence = SeekEnd THEN size + delta ELSE off + delta

SeekTarget(whence, delta, off, size) ==
    IF whence = SeekStart THEN delta
    ELSE IF whence = SeekCurrent THEN off + delta
    ELSE size + delta

Offsets == (0 - MaxSeek)..(MaxContentLen + MaxSeek)

\* a switch without the default case: every whence moves the offset
ValidWhenceAny(whence) == TRUE

\* the cases of the switch; every other whence is the default case
ValidWhence(whence) == whence \in {SeekStart, SeekCurrent, SeekEnd}

Seek(delta, whence, fEx, fAt) ==
    LET valid == ValidWhence(whence)
        g     == GetAttrs(bucket, name, attrs, fEx, fAt)
        sized == whence = SeekEnd
        new   == SeekTarget(whence, delta, offset, g.view.size)
    IN  /\ pc = "open"
        /\ valid => new \in Offsets
        /\ offset' = IF valid THEN new ELSE offset
        /\ attrs' = IF sized THEN g.cache ELSE attrs
        /\ ret' = IF valid
                  THEN [Ret("Seek", "nil", "", <<>>, IF sized THEN g.calls ELSE 0)
                          EXCEPT !.n = new, !.arg = delta, !.whence = whence]
                  ELSE [Ret("Seek", "invalid whence", "", <<>>, 0)
                          EXCEPT !.arg = delta, !.whence = whence]
        /\ hist' = [Resolved(Pre(hist), attrs') EXCEPT
                      !.faulted = @ \/ (sized /\ g.fault),
                      !.run = IF whence = SeekStart THEN "seek" ELSE "none",
                      !.start = IF whence = SeekStart THEN delta ELSE 0,
                      !.got = <<>>,
                      !.eof = FALSE]
        /\ UNCHANGED <<bucket, pc, name, isDir, contents, iter>>

(***************************************************************************)
(* The file specification: one object of any content, one handle on it,    *)
(* any sequence of Read and Seek.                                          *)
(***************************************************************************)
Bytes == {1, 2}

Contents == UNION {[1..m -> Bytes] : m \in 0..MaxContentLen}

FileKey == <<"a">>

InitFile ==
    /\ bucket \in {[k \in {FileKey} |-> Object(d, 0)] : d \in Contents}
    /\ HandleInit

OpenFile == \E fEx, fLs \in BOOLEAN : Open(FileKey, fEx, fLs)

ReadAny == \E buf \in Bufs, fRd \in BOOLEAN : Read(buf, fRd)

SeekAny ==
    \E delta \in Offsets, whence \in Whences, fEx, fAt \in BOOLEAN :
        Seek(delta, whence, fEx, fAt)

NextFile == OpenFile \/ ReadAny \/ SeekAny

SpecFile == InitFile /\ [][NextFile]_vars

(***************************************************************************)
(* blobFile.Size and blobFile.ModTime: both read through getAttrs          *)
(***************************************************************************)
Size(fEx, fAt) ==
    LET g == GetAttrs(bucket, name, attrs, fEx, fAt)
    IN  /\ pc = "open"
        /\ attrs' = g.cache
        /\ ret' = [Ret("Size", "nil", "", <<>>, g.calls) EXCEPT !.n = g.view.size]
        /\ hist' = [Resolved(Pre(hist), attrs') EXCEPT
                      !.faulted = @ \/ g.fault,
                      !.run = "none", !.start = 0, !.got = <<>>, !.eof = FALSE]
        /\ UNCHANGED <<bucket, pc, name, isDir, contents, offset, iter>>

ModTime(fEx, fAt) ==
    LET g == GetAttrs(bucket, name, attrs, fEx, fAt)
    IN  /\ pc = "open"
        /\ attrs' = g.cache
        /\ ret' = [Ret("ModTime", "nil", "", <<>>, g.calls)
                     EXCEPT !.n = g.view.modTime]
        /\ hist' = [Resolved(Pre(hist), attrs') EXCEPT
                      !.faulted = @ \/ g.fault,
                      !.run = "none", !.start = 0, !.got = <<>>, !.eof = FALSE]
        /\ UNCHANGED <<bucket, pc, name, isDir, contents, offset, iter>>

(***************************************************************************)
(* The backing store under other writers: the object is overwritten or     *)
(* deleted while the handle is open.  A write stamps the object with the   *)
(* store's clock.                                                          *)
(***************************************************************************)
MaxWrites == 2

WriteAll(key, data) ==
    /\ hist.clock < MaxWrites
    /\ bucket' = [k \in DOMAIN bucket \cup {key} |->
                    IF k = key THEN Object(data, hist.clock + 2) ELSE bucket[k]]
    /\ hist' = [hist EXCEPT !.clock = @ + 1]
    /\ UNCHANGED <<pc, name, attrs, isDir, contents, offset, iter, ret>>

Delete(key) ==
    /\ hist.clock < MaxWrites
    /\ HasObject(bucket, key)
    /\ bucket' = [k \in DOMAIN bucket \ {key} |-> bucket[k]]
    /\ hist' = [hist EXCEPT !.clock = @ + 1]
    /\ UNCHANGED <<pc, name, attrs, isDir, contents, offset, iter, ret>>

(***************************************************************************)
(* The attribute specification: one object, one handle on it, any sequence *)
(* of Stat, Size and ModTime while the object is overwritten and deleted.  *)
(***************************************************************************)
InitAttr ==
    /\ bucket \in {[k \in {FileKey} |-> Object(d, 1)] : d \in Contents}
    /\ HandleInit

SizeAny == \E fEx, fAt \in BOOLEAN : Size(fEx, fAt)

ModTimeAny == \E fEx, fAt \in BOOLEAN : ModTime(fEx, fAt)

WriteAny == \E d \in Contents : WriteAll(FileKey, d)

DeleteAny == Delete(FileKey)

NextAttr == OpenFile \/ StatAny \/ SizeAny \/ ModTimeAny \/ WriteAny \/ DeleteAny

SpecAttr == InitAttr /\ [][NextAttr]_vars

(***************************************************************************)
(* The live-store specification: one object, one handle on it, any         *)
(* sequence of Read and of Seek to the start or the end while the object   *)
(* is overwritten.                                                         *)
(***************************************************************************)
SeekLive ==
    \E whence \in {SeekStart, SeekEnd}, fEx, fAt \in BOOLEAN :
        Seek(0, whence, fEx, fAt)

NextLive == OpenFile \/ ReadAny \/ SeekLive \/ WriteAny

SpecLive == InitAttr /\ [][NextLive]_vars

(***************************************************************************)
(* blobFile.ReadDir                                                        *)
(***************************************************************************)
\* the listing prefix ReadDir derives from the handle's name
DirPrefix(nm) ==
    LET trimmed == TrimPrefix(nm, <<".">>)
    IN  IF trimmed # <<>> /\ ~HasSuffix(trimmed, <<"/">>)
        THEN trimmed \o <<"/">>
        ELSE trimmed

\* the loop over b.iter.Next: the iterator loads its listing at the first
\* Next (fLs: that store call fails), hands out one key per Next and then
\* io.EOF. The result is the keys collected, the error and the iterator left.
ReadDirLoop(bkt, it, prefix, n, fLs) ==
    LET load  == ~it.loaded
        rest  == IF load THEN ListObjects(bkt, prefix) ELSE it.rest
        some  == n > 0 /\ Len(rest) >= n
        taken == IF some THEN SubSeq(rest, 1, n) ELSE rest
        left  == SubSeq(rest, Len(taken) + 1, Len(rest))
    IN  IF load /\ fLs
        THEN [keys |-> <<>>, err |-> "StoreErr", calls |-> 1,
              iter |-> [set |-> TRUE, loaded |-> FALSE, rest |-> <<>>]]
        ELSE [keys |-> taken,
              err |-> IF some \/ n < 0 THEN "nil" ELSE "EOF",
              calls |-> IF load THEN 1 ELSE 0,
              iter |-> [set |-> TRUE, loaded |-> TRUE, rest |-> left]]

\* an entry of the result: a fresh handle on the listed key
EntryOf(key) == [name |-> key, isDir |-> HasSuffix(key, <<"/">>)]

\* the history of a run of ReadDir calls: the keys returned so far, as long
\* as every call on the handle was ReadDir(n) with the same n > 0 and no fault
PagesAfterReadDir(h, n, d) ==
    IF h.paging /\ n > 0 /\ h.pageN \in {0, n} /\ d.err # "StoreErr"
    THEN [h EXCEPT !.pageN = n, !.pages = @ \o d.keys]
    ELSE [h EXCEPT !.paging = FALSE, !.pageN = 0, !.pages = <<>>]

ReadDir(n, fLs) ==
    LET d == ReadDirLoop(bucket, iter, DirPrefix(name), n, fLs)
    IN  /\ pc = "open"
        /\ iter' = d.iter
        /\ ret' = [Ret("ReadDir", d.err, "", <<>>, d.calls)
                     EXCEPT !.keys = d.keys, !.n = Len(d.keys), !.arg = n]
        /\ hist' = [PagesAfterReadDir(Pre(hist), n, d) EXCEPT
                      !.faulted = @ \/ d.err = "StoreErr",
                      !.entries = [i \in 1..Len(d.keys) |-> EntryOf(d.keys[i])],
                      !.run = "none", !.start = 0, !.got = <<>>, !.eof = FALSE]
        /\ UNCHANGED <<bucket, pc, name, attrs, isDir, contents, offset>>

(***************************************************************************)
(* The directory specification: any bucket, Open of any name, then any     *)
(* sequence of ReadDir calls on the handle.                                *)
(***************************************************************************)
Counts == (0 - 1)..MaxCount

ReadDirAny == \E n \in Counts, fLs \in BOOLEAN : ReadDir(n, fLs)

NextDir == OpenAny \/ ReadDirAny

SpecDir == Init /\ [][NextDir]_vars

(***************************************************************************)
(* blobFile.IsDir, Type and Mode called on an entry that the last ReadDir  *)
(* returned.  Type and Mode are the directory bit of IsDir.                *)
(***************************************************************************)
ModeOf(dir) == IF dir THEN "ModeDir" ELSE "0"

EntryIsDir(i, method, fEx, fLs) ==
    LET en == hist.entries[i]
        d  == IsDirResult(bucket, en.name, en.isDir, fEx, fLs)
    IN  /\ pc = "open"
        /\ ret' = [Ret(method, "nil", "", <<>>, d.calls)
                     EXCEPT !.dir = d.dir, !.keys = <<en.name>>,
                            !.mode = ModeOf(d.dir)]
        /\ hist' = [Pre(hist) EXCEPT !.faulted = @ \/ d.fault]
        /\ UNCHANGED <<bucket, pc, name, attrs, isDir, contents, offset, iter>>

EntryMethods == {"Entry.IsDir", "Entry.Type", "Entry.Mode"}

EntryIsDirAny ==
    \E i \in 1..Len(hist.entries), method \in EntryMethods, fEx, fLs \in BOOLEAN :
        EntryIsDir(i, method, fEx, fLs)

(***************************************************************************)
(* The entry specification: any bucket, Open of any name, ReadDir on the   *)
(* handle, and IsDir, Type and Mode on the entries returned.               *)
(***************************************************************************)
NextEntry == OpenAny \/ ReadDirAny \/ EntryIsDirAny

SpecEntry == Init /\ [][NextEntry]_vars

(***************************************************************************)
(* What the properties speak of.                                           *)
(***************************************************************************)
\* p is a proper prefix of key k, as strings
StrictPrefix(p, k) == HasPrefix(k, p) /\ Len(p) < Len(k)

\* key k lies below the directory p: it begins with p + "/"
Below(p, k) == HasPrefix(k, p \o <<"/">>)

\* no store call of the handle has failed with a store fault so far
NoFaults == ~hist.faulted

(***************************************************************************)
(* C1: for every valid path p, Open(p) then Stat then IsDir() on the       *)
(* returned info is true if and only if no object exists at the exact key  *)
(* and at least one object key has p as a strict prefix.                   *)
(***************************************************************************)
C1_IsDirIffPrefixOnly ==
    (/\ ret.op = "IsDir"
     /\ hist.statOk
     /\ NoFaults
     /\ ValidPath(hist.path))
    => (ret.dir <=> (/\ ~HasObject(bucket, name)
                     /\ \E k \in DOMAIN bucket : StrictPrefix(name, k)))

(***************************************************************************)
(* C2: for every valid non-root p with no object at p and no key beginning *)
(* with p + "/", Open(p) fails with Not Found.                             *)
(***************************************************************************)
C2_OpenNotFound ==
    (/\ ret.op = "Open"
     /\ NoFaults
     /\ ValidPath(hist.path)
     /\ hist.path # <<".">>
     /\ ~HasObject(bucket, hist.path)
     /\ \A k \in DOMAIN bucket : ~Below(hist.path, k))
    => (/\ pc = "failed"
        /\ ret.err = "ErrNotExist")

(***************************************************************************)
(* C3: when a store call made during Open(p) fails with a store fault,     *)
(* Open returns an error wrapping "open", p and the store's error, and not *)
(* Not Found.                                                              *)
(***************************************************************************)
C3_OpenStoreFaultIsIOError ==
    (/\ ret.op = "Open"
     /\ hist.faulted)
    => (/\ pc = "failed"
        /\ ret.err = "StoreErr"
        /\ ret.errOp = "open"
        /\ ret.errPath = hist.path)

(***************************************************************************)
(* C4: for every path other than "." that is not a valid path, Open fails  *)
(* with an Invalid Path error and makes no backing-store call.             *)
(***************************************************************************)
C4_OpenInvalidPath ==
    (/\ ret.op = "Open"
     /\ hist.path # <<".">>
     /\ ~ValidPath(hist.path))
    => (/\ pc = "failed"
        /\ ret.err = "ErrInvalid"
        /\ ret.calls = 0)

(***************************************************************************)
(* The file specification's object and its length L.                       *)
(***************************************************************************)
FileData == IF HasObject(bucket, FileKey) THEN bucket[FileKey].data ELSE <<>>

L == Len(FileData)

\* the last call was a Read into a buffer of at least one byte
ReadSome == ret.op = "Read" /\ ~ret.nilArg /\ ret.arg >= 1

(***************************************************************************)
(* C5: on a freshly opened handle, Reads into a buffer of k >= 1 bytes     *)
(* deliver the L content bytes in order: each Read returns the next        *)
(* min(k, L - offset) bytes, end-of-stream comes exactly when all L bytes  *)
(* were delivered, and every Read after it returns 0 bytes and             *)
(* end-of-stream.                                                          *)
(***************************************************************************)
C5_ReadLoopReconstructs ==
    (/\ hist.run = "fresh"
     /\ NoFaults
     /\ ret.op = "Read")
    => (/\ ret.err \in {"nil", "EOF"}
        /\ ret.n = Min({ret.arg, L - hist.preOff})
        /\ ret.data = SubSeq(FileData, hist.preOff + 1, hist.preOff + ret.n)
        /\ offset = Len(hist.got)
        /\ hist.got = SubSeq(FileData, 1, Len(hist.got))
        /\ ret.err = "EOF" <=> ret.n = 0
        /\ ret.err = "EOF" => hist.got = FileData
        /\ hist.preEof => (ret.n = 0 /\ ret.err = "EOF"))

\* a whole content of three bytes was read in more than one Read, up to
\* end-of-stream
C5_Witness ==
    /\ hist.run = "fresh"
    /\ NoFaults
    /\ ret.op = "Read"
    /\ ret.err = "EOF"
    /\ hist.preEof
    /\ Len(hist.got) = MaxContentLen
    /\ hist.got = FileData

(***************************************************************************)
(* C6: after any Reads and Seeks, a start-anchored Seek to V with          *)
(* 0 <= V <= L returns V and sets offset to V, and the Reads that follow   *)
(* deliver exactly the content from byte V on, up to end-of-stream.        *)
(***************************************************************************)
C6_SeekStartThenSuffix ==
    (/\ hist.run = "seek"
     /\ NoFaults
     /\ 0 <= hist.start
     /\ hist.start <= L)
    => (/\ ret.op = "Seek" =>
              (/\ ret.err = "nil"
               /\ ret.n = hist.start
               /\ offset = hist.start)
        /\ ret.op = "Read" =>
              (/\ ret.err \in {"nil", "EOF"}
               /\ offset = hist.start + Len(hist.got)
               /\ hist.got = SubSeq(FileData, hist.start + 1,
                                    hist.start + Len(hist.got))
               /\ ret.err = "EOF" <=> ret.n = 0
               /\ ret.err = "EOF" => offset = L))

\* a Seek to the middle of the content, followed by Reads that delivered the
\* rest of it and then end-of-stream
C6_Witness ==
    /\ hist.run = "seek"
    /\ NoFaults
    /\ hist.start >= 1
    /\ hist.start < L
    /\ ret.op = "Read"
    /\ ret.err = "EOF"
    /\ hist.got = SubSeq(FileData, hist.start + 1, L)

(***************************************************************************)
(* C7: a Seek that places the offset beyond the end of the content         *)
(* succeeds, and the next Read with a non-empty buffer returns 0 bytes     *)
(* with end-of-stream; it does not fail or crash.                          *)
(***************************************************************************)
C7_SeekPastEndThenEOF ==
    /\ (/\ ret.op = "Seek"
        /\ ret.whence \in {SeekStart, SeekCurrent, SeekEnd}
        /\ offset > L) => ret.err = "nil"
    /\ (/\ ReadSome
        /\ hist.preOp = "Seek"
        /\ hist.preOff > L
        /\ NoFaults) => (ret.n = 0 /\ ret.err = "EOF")

(***************************************************************************)
(* C8: in every state reached by Reads and Seeks on a handle, the offset   *)
(* satisfies 0 <= offset <= len(content).                                  *)
(***************************************************************************)
C8_OffsetInRange ==
    pc = "open" => (0 <= offset /\ offset <= L)

(***************************************************************************)
(* What the directory properties speak of.                                 *)
(***************************************************************************)
\* the entries the handle's iterator had left before the last call
Remaining ==
    IF hist.preIter.loaded THEN hist.preIter.rest
    ELSE ListObjects(bucket, DirPrefix(name))

\* the keys below the directory d ("." is the root)
KeysBelow(d) ==
    IF d = <<".">> THEN DOMAIN bucket ELSE {k \in DOMAIN bucket : Below(d, k)}

\* key k relative to the directory d
Rel(d, k) == IF d = <<".">> THEN k ELSE SubSeq(k, Len(d) + 2, Len(k))

\* the next path segments below d
Segments(d) == {Split(Rel(d, k))[1] : k \in KeysBelow(d)}

\* d is a directory: the root, or no object at d and some key below it
IsDirectory(d) ==
    \/ d = <<".">>
    \/ (~HasObject(bucket, d) /\ KeysBelow(d) # {})

\* blobFile.Name of every entry returned
EntryNames == {Base(ret.keys[i]) : i \in 1..Len(ret.keys)}

(***************************************************************************)
(* C9: ReadDir(n) with n <= 0 (n = 0 and n < 0 alike) returns every entry  *)
(* the iterator has left together with a nil error, also when the iterator *)
(* is or becomes exhausted.                                                *)
(***************************************************************************)
C9_ReadDirAllNilError ==
    (/\ ret.op = "ReadDir"
     /\ ret.arg <= 0
     /\ NoFaults)
    => (/\ ret.keys = Remaining
        /\ ret.err = "nil")

(***************************************************************************)
(* C10: on a freshly opened directory handle for d, ReadDir with n <= 0    *)
(* returns exactly the immediate children of d: one entry per distinct     *)
(* next path segment below d, a file entry for a key directly under d and  *)
(* a directory entry for keys sharing a deeper segment, no duplicates.     *)
(***************************************************************************)
C10_ReadDirImmediateChildren ==
    (/\ ret.op = "ReadDir"
     /\ ret.arg <= 0
     /\ ~hist.preIter.set
     /\ NoFaults
     /\ ValidPath(hist.path)
     /\ IsDirectory(hist.path))
    => (/\ EntryNames = Segments(hist.path)
        /\ Len(ret.keys) = Cardinality(Segments(hist.path))
        /\ \A i \in 1..Len(ret.keys) :
              \E k \in KeysBelow(hist.path) :
                 /\ Split(Rel(hist.path, k))[1] = Base(ret.keys[i])
                 /\ HasSuffix(ret.keys[i], <<"/">>)
                       <=> Len(Split(Rel(hist.path, k))) > 1)

(***************************************************************************)
(* C11: ReadDir(n) with one n > 0, called repeatedly on a directory handle *)
(* (store unchanged, no faults), returns pages of at most n entries whose  *)
(* concatenation holds every immediate child exactly once; the call that   *)
(* exhausts the iterator with fewer than n entries returns them with       *)
(* end-of-stream, and no call before it returns an error.                  *)
(***************************************************************************)
PageNames == {Base(hist.pages[i]) : i \in 1..Len(hist.pages)}

C11_ReadDirPages ==
    (/\ ret.op = "ReadDir"
     /\ ret.arg > 0
     /\ hist.paging
     /\ NoFaults
     /\ ValidPath(hist.path)
     /\ IsDirectory(hist.path))
    => (/\ Len(ret.keys) <= ret.arg
        /\ ret.err \in {"nil", "EOF"}
        /\ ret.err = "EOF" <=> Len(ret.keys) < ret.arg
        /\ PageNames \subseteq Segments(hist.path)
        /\ Len(hist.pages) = Cardinality(PageNames)
        /\ ret.err = "EOF" => PageNames = Segments(hist.path))

(***************************************************************************)
(* C12: after the first successful Stat of a file on a handle, every later *)
(* Stat on that handle returns the cached attributes without any           *)
(* backing-store call.                                                     *)
(***************************************************************************)
C12_StatUsesCache ==
    (ret.op = "Stat" /\ hist.preStatted /\ NoFaults)
    => (ret.calls = 0 /\ ret.err = "nil" /\ attrs = hist.first)

(***************************************************************************)
(* C13: once a handle has resolved the file's attributes (by Stat, Size or *)
(* ModTime), every later Stat, Size and ModTime on it reports the same     *)
(* size and modification time, however the object is overwritten or        *)
(* deleted in the store meanwhile.                                         *)
(***************************************************************************)
C13_AttrsSnapshot ==
    (hist.preFirst /\ NoFaults)
    => (/\ ret.op = "Stat" => ret.err = "nil" /\ attrs = hist.first
        /\ ret.op = "Size" => ret.n = hist.first.size
        /\ ret.op = "ModTime" => ret.n = hist.first.modTime)

(***************************************************************************)
(* C14: Read with a nil buffer, or with a non-nil buffer of length zero,   *)
(* returns 0 bytes and no error (not end-of-stream) at any offset, and     *)
(* leaves the offset unchanged.                                            *)
(***************************************************************************)
C14_ReadEmptyBufferNoOp ==
    (ret.op = "Read" /\ (ret.nilArg \/ ret.arg = 0) /\ NoFaults)
    => (ret.n = 0 /\ ret.err = "nil" /\ offset = hist.preOff)

(***************************************************************************)
(* C15: Seek with a whence other than start, current and end fails with    *)
(* the invalid-argument error, makes no store call, and leaves the offset, *)
(* the content buffer and the cached attributes as they were.              *)
(***************************************************************************)
C15_SeekInvalidWhence ==
    [][(ret'.op = "Seek" /\ ret'.whence \notin {SeekStart, SeekCurrent, SeekEnd})
       => (/\ ret'.err = "invalid whence"
           /\ ret'.n = 0
           /\ ret'.calls = 0
           /\ offset' = offset
           /\ contents' = contents
           /\ attrs' = attrs)]_vars

\* an invalid Seek on a handle that has content, attributes and an offset
C15_Witness ==
    /\ ret.op = "Seek"
    /\ ret.whence \notin {SeekStart, SeekCurrent, SeekEnd}
    /\ ret.err = "invalid whence"
    /\ contents.set
    /\ attrs.set
    /\ offset > 0

C20_SeekEndThenEOF ==
    NoFaults
    => (/\ (ret.op = "Seek" /\ ret.whence = SeekEnd /\ ret.arg = 0 /\ contents.set)
           => offset = Len(contents.data)
        /\ (ReadSome /\ hist.preEnd0)
           => (ret.n = 0 /\ ret.err = "EOF"))

(***************************************************************************)
(* C18: whenever Open(p) succeeds, for any p including the root "." and    *)
(* any bucket including the empty one, a Stat on the handle succeeds when  *)
(* the store is unchanged and reports no fault; for the root the result is *)
(* a directory.                                                            *)
(***************************************************************************)
C18_OpenThenStatSucceeds ==
    (ret.op = "Stat" /\ NoFaults)
    => (ret.err = "nil" /\ (hist.path = <<".">> => isDir))

(***************************************************************************)
(* C19: if the Attributes call of Stat fails by a store fault while an     *)
(* object exists at the handle's exact key, Stat returns an error and does *)
(* not mark the handle as a directory; the fallback marks a handle as a    *)
(* directory only when no object exists at the exact key.                  *)
(***************************************************************************)
C19_StatFaultNotDirectory ==
    /\ (ret.op = "Stat" /\ hist.statFault /\ HasObject(bucket, name))
       => (ret.err # "nil" /\ ~isDir)
    /\ isDir => ~HasObject(bucket, name)

====
